---- MODULE Spec2Model ----
(***************************************************************************)
(* CineGen AI Storyboarder: the App component's state (src/App.tsx), the   *)
(* sequential generation loop of handleGenerate, the generation client     *)
(* generateStoryboardFrame and the image normalizer resizeImage            *)
(* (src/services/geminiService.ts).                                        *)
(***************************************************************************)
EXTENDS Integers, Sequences, FiniteSets, TLC

VARIABLES
  refImage,         \* useState<string | null>: the reference image data URI
  shots,            \* useState<GeneratedShot[]>: the result list
  isGenerating,     \* useState<boolean>
  validationError,  \* useState<string | null>
  apiKey,           \* process.env.API_KEY
  runs,             \* the invocations of handleGenerate that reached the loop
  last,             \* history: the step just taken and its input
  img,              \* the Image element resizeImage loads (width, height)
  resized           \* what resizeImage resolved with

vars == <<refImage, shots, isGenerating, validationError, apiKey,
          runs, last, img, resized>>

-----------------------------------------------------------------------------
(* Bounds *)

\* accepted runs of handleGenerate in one behaviour
MaxRuns == 2
\* longest shot list typed into the editor
MaxShots == 2
\* how far around 1, the maximum and twice the maximum the image sides range
DimSpread == 3

-----------------------------------------------------------------------------
(* JavaScript values *)

Null == "<null>"
Undefined == "<undefined>"

\* JavaScript truthiness of a string-or-absent value
Truthy(s) == s # Null /\ s # Undefined /\ s # ""

\* a || b on strings
OrElse(a, b) == IF Truthy(a) THEN a ELSE b

Max(a, b) == IF a >= b THEN a ELSE b

\* Math.round of the non-negative quotient a / b: the nearest integer, halves up
MathRound(a, b) == (2 * a + b) \div (2 * b)

-----------------------------------------------------------------------------
(* types.ts *)

PENDING == "PENDING"
SUCCESS == "SUCCESS"
ERROR == "ERROR"
IDLE == "IDLE"
GenerationStatus == {IDLE, PENDING, SUCCESS, ERROR}

ShotConfig(t, a, p) ==
  [isNull |-> FALSE, shot_type |-> t, aspect_ratio |-> a, prompt |-> p]

DEFAULT_SHOT_LIST ==
  << ShotConfig("Wide Shot", "16:9", "neon-lit alleyway"),
     ShotConfig("Close Up", "16:9", "intense determination"),
     ShotConfig("Low Angle", "16:9", "towering skyscraper") >>

-----------------------------------------------------------------------------
(* The shot-list editor: texts and JSON.parse *)

\* a JSON array value
JsonArray(items) == [isArray |-> TRUE, items |-> items]

\* a JSON value that is no array (an object, a number, a string)
JsonObject == [isArray |-> FALSE, items |-> << >>]

\* a text JSON.parse accepts, yielding value v
JsonText(v) == [syntax |-> "json", value |-> v]

\* a non-empty text JSON.parse rejects
MalformedText == [syntax |-> "malformed", value |-> JsonObject]

\* the empty text
EmptyText == [syntax |-> "empty", value |-> JsonObject]

\* a shot without the optional aspect_ratio
ShotNoRatio == ShotConfig("Close Up", Undefined, "intense determination")

\* the j-th item of the well-formed lists of the editor's texts: the default
\* list, its second shot without aspect_ratio, repeated from the fourth on
GoodItem(j) ==
  IF j = 2 THEN ShotNoRatio
  ELSE DEFAULT_SHOT_LIST[((j - 1) % Len(DEFAULT_SHOT_LIST)) + 1]

\* the well-formed list of k shots
GoodList(k) == [j \in 1..k |-> GoodItem(j)]

\* the other array items: a shot without prompt, a shot with an empty
\* shot_type, and null
BadItems ==
  { ShotConfig("Low Angle", "16:9", Undefined),
    ShotConfig("", "16:9", "towering skyscraper"),
    [isNull |-> TRUE, shot_type |-> Undefined, aspect_ratio |-> Undefined,
     prompt |-> Undefined] }

\* the arrays of the editor's texts: the well-formed lists, the lists with one
\* item that is not well-formed at their end, and the lists of two such items
Arrays ==
  { GoodList(k) : k \in 0..MaxShots }
    \cup { Append(GoodList(k), b) : k \in 0..(MaxShots - 1), b \in BadItems }
    \cup { <<b, c>> : b \in BadItems, c \in BadItems }

\* the texts of the shot-list editor (useState jsonInput, set by typing, by
\* handleJsonUpload and by Reset Default): setJsonInput commutes with every
\* step of a run, so the text is taken where it is read, at the invocation of
\* handleGenerate
JsonTexts ==
  {MalformedText, EmptyText, JsonText(JsonObject)}
    \cup { JsonText(JsonArray(a)) : a \in Arrays }

\* JSON.parse(text): the value, or a SyntaxError
JSONparse(text) ==
  IF text.syntax = "json"
    THEN [threw |-> FALSE, value |-> text.value]
    ELSE [threw |-> TRUE, value |-> JsonObject]

\* item => item.shot_type: a check that forgets the prompt
ItemCheckTypeOnly(item) ==
  IF item.isNull THEN "throws"
  ELSE IF Truthy(item.shot_type) THEN "true"
  ELSE "false"

\* item => item.shot_type && item.prompt (property access on null throws)
ItemCheck(item) ==
  IF item.isNull THEN "throws"
  ELSE IF Truthy(item.shot_type) /\ Truthy(item.prompt) THEN "true"
  ELSE "false"

\* parsed.every(check): "true", or the outcome at the first item that is not "true"
Every(items) ==
  LET bad == { k \in 1..Len(items) : ItemCheck(items[k]) # "true" }
  IN IF bad = {} THEN "true"
     ELSE ItemCheck(items[CHOOSE k \in bad : \A j \in bad : k <= j])

MsgNotArray == "JSON must be an array of shot objects."
MsgMissingFields == "Each shot must have 'shot_type' and 'prompt' fields."
MsgInvalidJson == "Invalid JSON format."
MsgApiKey == "API Key missing in environment (process.env.API_KEY)."

\* validateAndParseJson: the shot configs (ok) or null, and the value it
\* gives validationError
validateAndParseJson(text) ==
  LET p == JSONparse(text)
      e == IF p.threw \/ ~p.value.isArray THEN "false" ELSE Every(p.value.items)
  IN IF p.threw THEN [ok |-> FALSE, parsed |-> << >>, error |-> MsgInvalidJson]
     ELSE IF ~p.value.isArray
       THEN [ok |-> FALSE, parsed |-> << >>, error |-> MsgNotArray]
     ELSE IF e = "throws"
       THEN [ok |-> FALSE, parsed |-> << >>, error |-> MsgInvalidJson]
     ELSE IF e = "false"
       THEN [ok |-> FALSE, parsed |-> << >>, error |-> MsgMissingFields]
     ELSE [ok |-> TRUE, parsed |-> p.value.items, error |-> Null]

\* isApiKeyAvailable(): !!process.env.API_KEY
isApiKeyAvailable == Truthy(apiKey)

hasApiKey == isApiKeyAvailable

-----------------------------------------------------------------------------
(* services/geminiService.ts: resizeImage *)

\* the default maxWidth and maxHeight of resizeImage
DefaultMaxDimension == 1024

\* the sides of the images resizeImage is given
Dims ==
  (1..DimSpread)
    \cup ((DefaultMaxDimension - DimSpread)..(DefaultMaxDimension + DimSpread))
    \cup ((2 * DefaultMaxDimension - DimSpread)..(2 * DefaultMaxDimension + DimSpread))

\* Math.floor((side * max) / larger): truncation in place of rounding
ResizedSideFloor(side, max, larger) == (side * max) \div larger

\* Math.round((side * max) / larger)
ResizedSide(side, max, larger) == MathRound(side * max, larger)

\* The body of img.onload up to the canvas: the width and height drawn
ResizedDimensions(width, height, maxWidth, maxHeight) ==
  IF width > height
    THEN IF width > maxWidth
           THEN [width |-> maxWidth, height |-> ResizedSide(height, maxWidth, width)]
           ELSE [width |-> width, height |-> height]
    ELSE IF height > maxHeight
           THEN [width |-> ResizedSide(width, maxHeight, height), height |-> maxHeight]
           ELSE [width |-> width, height |-> height]

\* how a call of resizeImage ends: the image loads and the canvas has a 2d
\* context, the canvas has none, or the image fails to load
LoadOutcomes == {"drawn", "noContext", "loadError"}

\* resizeImage(base64Str) with the default maxima: a JPEG of the computed
\* size, or (failing open) the original
resizeImage(image, how) ==
  IF how = "drawn"
    THEN LET d == ResizedDimensions(image.width, image.height,
                                    DefaultMaxDimension, DefaultMaxDimension)
         IN [format |-> "jpeg", width |-> d.width, height |-> d.height]
    ELSE [format |-> "original", width |-> image.width, height |-> image.height]

-----------------------------------------------------------------------------
(* services/geminiService.ts: generateStoryboardFrame *)

MsgNoImage ==
  "No image data found in response. The model may have blocked the request or returned only text."
MsgFallback == "Failed to generate image"
MsgTypeError == "Cannot read properties of undefined (reading 'parts')"

TextPart == [inline |-> FALSE, data |-> Undefined]
InlinePart(d) == [inline |-> TRUE, data |-> d]
Candidate(parts) == [hasContent |-> TRUE, parts |-> parts]
NoContentCandidate == [hasContent |-> FALSE, parts |-> << >>]
Response(cands) == [hasCandidates |-> TRUE, candidates |-> cands]
NoCandidatesResponse == [hasCandidates |-> FALSE, candidates |-> << >>]

\* the responses of ai.models.generateContent
Responses ==
  { NoCandidatesResponse,
    Response(<< >>),
    Response(<< Candidate(<< TextPart >>) >>),
    Response(<< Candidate(<< InlinePart("") >>) >>),
    Response(<< Candidate(<< TextPart, InlinePart("iVBOR") >>) >>),
    Response(<< Candidate(<< TextPart >>), Candidate(<< InlinePart("iVBOR") >>) >>),
    Response(<< NoContentCandidate >>) }

\* the messages of the errors the network call rejects with ("": none)
NetworkMessages == {"", "Rpc failed due to xhr error"}

Resolved(r) == [kind |-> "response", response |-> r, message |-> Undefined]
Rejected(m) == [kind |-> "rejected", response |-> NoCandidatesResponse, message |-> m]

\* how the awaited ai.models.generateContent call settles
Outcomes == { Resolved(r) : r \in Responses } \cup { Rejected(m) : m \in NetworkMessages }

NoOutcome == [kind |-> "none", response |-> NoCandidatesResponse, message |-> Undefined]

\* part.inlineData alone: a test that forgets the data
IsImagePartAnyData(part) == part.inline

\* part.inlineData && part.inlineData.data
IsImagePart(part) == part.inline /\ Truthy(part.data)

\* the for loop over candidates[0].content.parts: the data of the first image
\* part, or Undefined
FirstImageData(parts) ==
  LET hits == { k \in 1..Len(parts) : IsImagePart(parts[k]) }
  IN IF hits = {} THEN Undefined
     ELSE parts[CHOOSE k \in hits : \A j \in hits : k <= j].data

Returned(url) == [ok |-> TRUE, imageUrl |-> url, message |-> Undefined]
Thrown(m) == [ok |-> FALSE, imageUrl |-> Undefined, message |-> m]

\* the try block after the response arrived: the data URI returned, or the
\* message of the error thrown inside it
ParseResponse(response) ==
  IF response.hasCandidates /\ Len(response.candidates) > 0
    THEN LET c == response.candidates[1]
         IN IF ~c.hasContent THEN Thrown(MsgTypeError)
            ELSE IF FirstImageData(c.parts) # Undefined
              THEN Returned("data:image/png;base64," \o FirstImageData(c.parts))
            ELSE Thrown(MsgNoImage)
    ELSE Thrown(MsgNoImage)

\* the catch block without its default: throw new Error(error.message)
RethrowNoDefault(message) == Thrown(message)

\* the catch block: throw new Error(error.message || "Failed to generate image")
Rethrow(message) == Thrown(OrElse(message, MsgFallback))

\* generateStoryboardFrame, from the point its network call settles
generateStoryboardFrame(outcome) ==
  IF outcome.kind = "rejected" THEN Rethrow(outcome.message)
  ELSE LET r == ParseResponse(outcome.response)
       IN IF r.ok THEN r ELSE Rethrow(r.message)

-----------------------------------------------------------------------------
(* App.tsx: state *)

\* the data URI FileReader hands to setRefImage
UploadedImage == "data:image/png;base64,REF"

\* the strings Math.random().toString(36).substring(7) yields
IdPool == {"k2x9f", "p07qz"}

\* generateId(): any string of the pool
generateId == IdPool

\* an invocation of handleGenerate that is past its loop
FinishedRun ==
  [pc |-> "done", refImage |-> Null, initialShots |-> << >>, i |-> 0, calls |-> << >>]

\* an invocation suspended in its loop: at the await of generateStoryboardFrame
\* for initialShots[i] (pc "await") or at the await of the timer (pc "pause");
\* calls is the log of the shots it has called generateStoryboardFrame for
LiveRuns == { r \in 1..Len(runs) : runs[r].pc # "done" }

\* a history record: the step, the run and shot it concerns, the editor text or
\* the outcome it was given, and (at the end of a run) the run's log of calls
Step(op, run, idx, input, outcome, calls) ==
  [op |-> op, run |-> run, idx |-> idx, input |-> input, outcome |-> outcome,
   calls |-> calls]

TypeOK ==
  /\ refImage \in {Null, UploadedImage}
  /\ isGenerating \in BOOLEAN
  /\ validationError \in {Null, MsgNotArray, MsgMissingFields, MsgInvalidJson, MsgApiKey}
  /\ Len(runs) <= MaxRuns
  /\ \A k \in 1..Len(shots) : shots[k].status \in GenerationStatus

Init ==
  /\ refImage = Null
  /\ shots = << >>
  /\ isGenerating = FALSE
  /\ validationError = Null
  /\ apiKey \in {Undefined, "AIza-key"}
  /\ runs = << >>
  /\ last = Step("init", 0, 0, EmptyText, NoOutcome, << >>)
  /\ img = [width |-> 0, height |-> 0]
  /\ resized = [format |-> "none", width |-> 0, height |-> 0]

-----------------------------------------------------------------------------
(* App.tsx: the inputs *)

\* handleImageUpload, once the FileReader has loaded the file
handleImageUpload ==
  /\ refImage' = UploadedImage
  /\ last' = Step("input", 0, 0, EmptyText, NoOutcome, << >>)
  /\ UNCHANGED <<shots, isGenerating, validationError, apiKey, runs, img, resized>>

\* the Clear button of the reference image, shown when there is one
removeImage ==
  /\ Truthy(refImage)
  /\ refImage' = Null
  /\ last' = Step("input", 0, 0, EmptyText, NoOutcome, << >>)
  /\ UNCHANGED <<shots, isGenerating, validationError, apiKey, runs, img, resized>>

-----------------------------------------------------------------------------
(* App.tsx: handleGenerate and handleClear *)

\* { ...config, id: generateId(), status: PENDING }
NewShot(config, id) ==
  [shot_type |-> config.shot_type, aspect_ratio |-> config.aspect_ratio,
   prompt |-> config.prompt, id |-> id, status |-> PENDING,
   imageUrl |-> Undefined, error |-> Undefined]

\* the record a settled call gives the record s
Resolve(s, res) ==
  IF res.ok THEN [s EXCEPT !.status = SUCCESS, !.imageUrl = res.imageUrl]
  ELSE [s EXCEPT !.status = ERROR, !.error = res.message]

\* a patch that adds the record when the list has none of its id
PatchOrAdd(prev, shot, res) ==
  IF \E k \in 1..Len(prev) : prev[k].id = shot.id
    THEN [k \in 1..Len(prev) |->
            IF prev[k].id = shot.id THEN Resolve(prev[k], res) ELSE prev[k]]
    ELSE Append(prev, Resolve(shot, res))

\* a patch that resolves every record of the list
PatchAll(prev, shot, res) == [k \in 1..Len(prev) |-> Resolve(prev[k], res)]

\* prev.map(s => s.id === shot.id ? { ...s, status, imageUrl | error } : s)
Patch(prev, shot, res) ==
  [k \in 1..Len(prev) |->
     IF prev[k].id = shot.id THEN Resolve(prev[k], res) ELSE prev[k]]

\* a loop without the pause: the next call is made as soon as one settles
AfterSettleNoPause(run, res) ==
  IF run.i < Len(run.initialShots)
    THEN [run EXCEPT !.i = @ + 1, !.calls = Append(@, run.i + 1)]
    ELSE [run EXCEPT !.pc = "pause"]

\* a loop that leaves at the first failure
AfterSettleBreak(run, res) ==
  IF res.ok THEN [run EXCEPT !.pc = "pause"]
  ELSE [run EXCEPT !.pc = "pause", !.i = Len(run.initialShots)]

\* after the try/catch: await new Promise(resolve => setTimeout(resolve, 1000))
AfterSettle(run, res) == [run EXCEPT !.pc = "pause"]

\* handleGenerate up to its first await, jsonInput being the text the editor
\* holds when it is invoked
handleGenerate(jsonInput) ==
  LET v == validateAndParseJson(jsonInput) IN
  IF ~Truthy(refImage)
    THEN /\ last' = Step("alert", 0, 0, jsonInput, NoOutcome, << >>)
         /\ UNCHANGED <<refImage, shots, isGenerating, validationError,
                        apiKey, runs, img, resized>>
  ELSE IF ~v.ok
    THEN /\ validationError' = v.error
         /\ last' = Step("blocked", 0, 0, jsonInput, NoOutcome, << >>)
         /\ UNCHANGED <<refImage, shots, isGenerating, apiKey, runs,
                        img, resized>>
  ELSE IF ~hasApiKey
    THEN /\ validationError' = MsgApiKey
         /\ last' = Step("blocked", 0, 0, jsonInput, NoOutcome, << >>)
         /\ UNCHANGED <<refImage, shots, isGenerating, apiKey, runs,
                        img, resized>>
  ELSE /\ Len(runs) < MaxRuns
       /\ \E ids \in [1..Len(v.parsed) -> generateId] :
            LET initialShots == [k \in 1..Len(v.parsed) |-> NewShot(v.parsed[k], ids[k])]
            IN /\ shots' = initialShots
               /\ IF Len(initialShots) = 0
                    THEN /\ isGenerating' = FALSE
                         /\ runs' = Append(runs, FinishedRun)
                    ELSE /\ isGenerating' = TRUE
                         /\ runs' = Append(runs,
                              [pc |-> "await", refImage |-> refImage,
                               initialShots |-> initialShots, i |-> 1, calls |-> <<1>>])
       /\ validationError' = Null
       /\ last' = Step("accepted", Len(runs) + 1, 0, jsonInput, NoOutcome, << >>)
       /\ UNCHANGED <<refImage, apiKey, img, resized>>

\* handleClear
handleClear ==
  /\ shots' = << >>
  /\ isGenerating' = FALSE
  /\ last' = Step("clear", 0, 0, EmptyText, NoOutcome, << >>)
  /\ UNCHANGED <<refImage, validationError, apiKey, runs, img, resized>>

\* the continuation of run r when its generateStoryboardFrame call settles,
\* the network call having ended with outcome: the try or the catch branch
\* patches the list, then the timer is started
Settle(r, outcome) ==
  /\ r \in 1..Len(runs)
  /\ runs[r].pc = "await"
  /\ LET run == runs[r]
         shot == run.initialShots[run.i]
         res == generateStoryboardFrame(outcome)
     IN /\ shots' = Patch(shots, shot, res)
        /\ runs' = [runs EXCEPT ![r] = AfterSettle(run, res)]
        /\ last' = Step("settle", r, run.i, EmptyText, outcome, << >>)
  /\ UNCHANGED <<refImage, isGenerating, validationError, apiKey, img, resized>>

\* the continuation of run r when its timer fires: the next iteration calls
\* generateStoryboardFrame for the next shot, or the loop ends and
\* setIsGenerating(false) runs
PauseElapsed(r) ==
  /\ r \in 1..Len(runs)
  /\ runs[r].pc = "pause"
  /\ LET run == runs[r] IN
       IF run.i < Len(run.initialShots)
         THEN /\ runs' = [runs EXCEPT ![r] =
                    [run EXCEPT !.pc = "await", !.i = @ + 1, !.calls = Append(@, run.i + 1)]]
              /\ last' = Step("next", r, run.i + 1, EmptyText, NoOutcome, << >>)
              /\ UNCHANGED isGenerating
         ELSE /\ runs' = [runs EXCEPT ![r] = FinishedRun]
              /\ isGenerating' = FALSE
              /\ last' = Step("finish", r, Len(run.initialShots), EmptyText, NoOutcome, run.calls)
  /\ UNCHANGED <<refImage, shots, validationError, apiKey, img, resized>>

-----------------------------------------------------------------------------
(* App.tsx: the buttons *)

\* disabled={!refImage || !jsonInput || !hasApiKey}
GenerateDisabled(jsonInput) ==
  ~Truthy(refImage) \/ jsonInput = EmptyText \/ ~hasApiKey

\* components/Button: a button that is disabled or loading takes no click
ButtonInert(disabled, isLoading) == disabled \/ isLoading

\* a button shown whenever the list has a record, during a run too
ClearShownDuringRun == Len(shots) > 0

\* {shots.length > 0 && !isGenerating && <Button onClick={handleClear}>}
ClearShown == Len(shots) > 0 /\ ~isGenerating

\* a click on Generate Storyboard
GenerateClick ==
  \E jsonInput \in JsonTexts :
    /\ ~ButtonInert(GenerateDisabled(jsonInput), isGenerating)
    /\ handleGenerate(jsonInput)

\* a click on Clear Session
ClearClick == ClearShown /\ handleClear

\* the application as the user drives it
Next ==
  \/ handleImageUpload
  \/ removeImage
  \/ GenerateClick
  \/ ClearClick
  \/ \E r \in 1..MaxRuns, outcome \in Outcomes : Settle(r, outcome)
  \/ \E r \in 1..MaxRuns : PauseElapsed(r)

Spec == Init /\ [][Next]_vars

\* the editor texts and the outcomes of the specification of overlapping
\* runs: the well-formed lists; an image and a network failure
CoreTexts == { JsonText(JsonArray(GoodList(k))) : k \in 0..MaxShots }

CoreOutcomes ==
  { Resolved(Response(<< Candidate(<< TextPart, InlinePart("iVBOR") >>) >>)),
    Rejected("Rpc failed due to xhr error") }

\* the application when the Generate button takes every click (its disabled
\* and isLoading props ignored): handleGenerate is invoked in any state, and
\* so during a run
NextHandlers ==
  \/ handleImageUpload
  \/ \E jsonInput \in CoreTexts : handleGenerate(jsonInput)
  \/ ClearClick
  \/ \E r \in 1..MaxRuns, outcome \in CoreOutcomes : Settle(r, outcome)
  \/ \E r \in 1..MaxRuns : PauseElapsed(r)

SpecHandlers == Init /\ [][NextHandlers]_vars

\* the application under the scheduling the code relies on: every
\* generateStoryboardFrame call settles, and every timer fires
FairSpec ==
  /\ Init
  /\ [][Next]_vars
  /\ WF_vars(\E r \in 1..MaxRuns, outcome \in Outcomes : Settle(r, outcome))
  /\ WF_vars(\E r \in 1..MaxRuns : PauseElapsed(r))

-----------------------------------------------------------------------------
(* resizeImage on its own *)

\* any image, not yet resized
InitResize ==
  /\ refImage = UploadedImage
  /\ shots = << >>
  /\ isGenerating = FALSE
  /\ validationError = Null
  /\ apiKey = "AIza-key"
  /\ runs = << >>
  /\ last = Step("init", 0, 0, EmptyText, NoOutcome, << >>)
  /\ img \in [width : Dims, height : Dims]
  /\ resized = [format |-> "none", width |-> 0, height |-> 0]

\* a call of resizeImage(refImage) resolves
resizeImageCall ==
  /\ \E how \in LoadOutcomes : resized' = resizeImage(img, how)
  /\ UNCHANGED <<refImage, shots, isGenerating, validationError, apiKey, runs, last, img>>

NextResize == resizeImageCall

SpecResize == InitResize /\ [][NextResize]_vars

-----------------------------------------------------------------------------
(* Properties *)

IsResolved(s) == s.status \in {SUCCESS, ERROR}

AllResolved == \A k \in 1..Len(shots) : IsResolved(shots[k])

\* the shot configs of an editor text that handleGenerate accepted
AcceptedItems(text) == text.value.items

\* C1: an accepted run over N shots creates exactly N records, all PENDING
\* when the first call is made; the list keeps its N records during the run;
\* a record is resolved only when the record before it already is; and, the
\* calls settling and the timers firing, the run ends with every record
\* resolved to SUCCESS or ERROR.
C1_RunResolvesInOrder ==
  /\ [](\A r \in LiveRuns : Len(shots) = Len(runs[r].initialShots))
  /\ [][ /\ last'.op = "accepted" =>
              /\ Len(shots') = Len(AcceptedItems(last'.input))
              /\ \A k \in 1..Len(shots') : shots'[k].status = PENDING
         /\ Len(shots') = Len(shots) =>
              \A k \in 1..(Len(shots) - 1) :
                 (~IsResolved(shots[k + 1]) /\ IsResolved(shots'[k + 1]))
                    => IsResolved(shots[k]) ]_vars
  /\ (isGenerating ~> (~isGenerating /\ AllResolved))

\* C1 without the order of resolution: the count, the PENDING start and the
\* eventual resolution of every record
C1_RunResolvesAll ==
  /\ [](\A r \in LiveRuns : Len(shots) = Len(runs[r].initialShots))
  /\ [][ last'.op = "accepted" =>
              /\ Len(shots') = Len(AcceptedItems(last'.input))
              /\ \A k \in 1..Len(shots') : shots'[k].status = PENDING ]_vars
  /\ (isGenerating ~> (~isGenerating /\ AllResolved))

\* the runs with a generateStoryboardFrame call outstanding
Outstanding == { r \in 1..Len(runs) : runs[r].pc = "await" }

C3_UniqueIds ==
  \A r \in LiveRuns :
    LET list == runs[r].initialShots IN
      /\ \A j \in 1..Len(list), k \in 1..Len(list) : j # k => list[j].id # list[k].id
      /\ \A k \in 1..Len(list) : list[k].id \in IdPool

\* the sequence 1, 2, ..., n
UpTo(n) == [k \in 1..n |-> k]

\* C4: a run calls generateStoryboardFrame for its shots in order, once each
\* and never again, whatever the outcomes: while it runs its log of calls is
\* 1..i, a failed call leaves it at the pause before the next shot, and when it
\* ends the log is 1..N.
C4_EveryShotRequestedOnce ==
  /\ \A r \in LiveRuns : runs[r].calls = UpTo(runs[r].i)
  /\ last.op = "settle" /\ runs[last.run].pc # "done"
       => runs[last.run].pc = "pause" /\ runs[last.run].i = last.idx
  /\ last.op = "finish" => last.calls = UpTo(last.idx)

\* C4 witness: a run of two shots ended whose first call had failed
C4_Witness ==
  /\ last.op = "finish"
  /\ last.calls = <<1, 2>>
  /\ Len(shots) = 2
  /\ shots[1].status = ERROR
  /\ shots[2].status = SUCCESS

\* C5: handleClear leaves the result list empty and isGenerating false, and an
\* empty list stays empty through every step, the status updates of the runs
\* still in progress included, until a handleGenerate is accepted.
C5_ClearedListStaysEmpty ==
  [][ /\ last'.op = "clear" => (shots' = << >> /\ ~isGenerating')
      /\ (shots = << >> /\ last'.op # "accepted") => shots' = << >> ]_vars

\* C5 witness: the call of the latest run settled after the list it had filled
\* was cleared
C5_Witness ==
  /\ last.op = "settle"
  /\ last.run = Len(runs)
  /\ shots = << >>
  /\ ~isGenerating

\* a response without candidates, or whose first candidate has no part with
\* non-empty inline data
LacksImage(response) ==
  \/ ~response.hasCandidates
  \/ response.candidates = << >>
  \/ \A k \in 1..Len(response.candidates[1].parts) :
       LET part == response.candidates[1].parts[k]
       IN ~part.inline \/ part.data = "" \/ part.data = Undefined

\* C6: when the response of a call lacks an image, generateStoryboardFrame
\* fails and the record of the shot has status ERROR; and a record with status
\* SUCCESS always has a non-empty imageUrl.
C6_NoImageIsError ==
  /\ (last.op = "settle" /\ last.outcome.kind = "response"
        /\ LacksImage(last.outcome.response))
       => /\ ~generateStoryboardFrame(last.outcome).ok
          /\ shots[last.idx].status = ERROR
  /\ \A k \in 1..Len(shots) :
       shots[k].status = SUCCESS
         => shots[k].imageUrl # Undefined /\ Len(shots[k].imageUrl) > 0

\* C6 witness: a response whose only part carries empty inline data settled
C6_Witness ==
  /\ last.op = "settle"
  /\ last.outcome = Resolved(Response(<< Candidate(<< InlinePart("") >>) >>))
  /\ shots[last.idx].status = ERROR

\* an item without a non-empty shot_type or prompt
LacksFields(item) ==
  \/ item.isNull
  \/ item.shot_type \in {Undefined, ""}
  \/ item.prompt \in {Undefined, ""}

\* a text that is malformed, no array, or has an item lacking a field
BadJson(text) ==
  \/ text.syntax # "json"
  \/ ~text.value.isArray
  \/ \E k \in 1..Len(text.value.items) : LacksFields(text.value.items[k])

Abs(x) == IF x < 0 THEN -x ELSE x

Underlying(outcome) ==
  IF outcome.kind = "rejected" THEN outcome.message
  ELSE IF outcome.response.hasCandidates /\ outcome.response.candidates # << >>
          /\ ~outcome.response.candidates[1].hasContent
    THEN MsgTypeError
  ELSE MsgNoImage

FailedSettle == last.op = "settle" /\ ~generateStoryboardFrame(last.outcome).ok

\* C9 as stated: the error of a failed call carries the underlying message
\* unchanged, and the record of the shot stores that message.
C9_MessageUnchanged ==
  FailedSettle
    => /\ generateStoryboardFrame(last.outcome).message = Underlying(last.outcome)
       /\ shots[last.idx].error = Underlying(last.outcome)

\* C9: the error of a failed call carries the underlying message unchanged
\* when that message is not empty and "Failed to generate image" when it is,
\* and the record of the shot stores the message of that error.
C9_MessageOrDefault ==
  FailedSettle
    => LET m == IF Underlying(last.outcome) = "" THEN MsgFallback
                ELSE Underlying(last.outcome)
       IN /\ generateStoryboardFrame(last.outcome).message = m
          /\ shots[last.idx].error = m
          /\ shots[last.idx].status = ERROR

\* C9 witness: a network failure with a message settled
C9_Witness ==
  /\ last.op = "settle"
  /\ last.outcome = Rejected("Rpc failed due to xhr error")
  /\ shots[last.idx].error = "Rpc failed due to xhr error"

\* C10: a status update leaves the length of the list, the records of other
\* ids and the shot_type, aspect_ratio, prompt and id of every record as they
\* were, and changes at most the status and one of imageUrl and error.
C10_UpdateFrame ==
  [][ last'.op = "settle" =>
        LET shot == runs[last'.run].initialShots[last'.idx] IN
          /\ Len(shots') = Len(shots)
          /\ \A k \in 1..Len(shots) :
               /\ shots[k].id # shot.id => shots'[k] = shots[k]
               /\ shots'[k].shot_type = shots[k].shot_type
               /\ shots'[k].aspect_ratio = shots[k].aspect_ratio
               /\ shots'[k].prompt = shots[k].prompt
               /\ shots'[k].id = shots[k].id
               /\ shots'[k].imageUrl = shots[k].imageUrl
                    \/ shots'[k].error = shots[k].error ]_vars

\* C10 witness: the first of two records with different ids was resolved, the
\* second is still PENDING
C10_Witness ==
  /\ last.op = "settle"
  /\ Len(shots) = 2
  /\ shots[1].id # shots[2].id
  /\ IsResolved(shots[1])
  /\ shots[2].status = PENDING

\* the steps in which a run goes on: a call settles, a timer fires
RunSteps == {"settle", "next", "finish"}

\* the status, imageUrl and error of a record
Result(s) == [status |-> s.status, imageUrl |-> s.imageUrl, error |-> s.error]

\* C11: no record of the result list ever has status IDLE, and a record with
\* status SUCCESS or ERROR keeps its place, its status, its imageUrl and its
\* error through every later step of every run.
C11_ResolvedIsFinal ==
  /\ [](\A k \in 1..Len(shots) : shots[k].status \in {PENDING, SUCCESS, ERROR})
  /\ [][ last'.op \in RunSteps =>
           \A k \in 1..Len(shots) :
              IsResolved(shots[k])
                => /\ k <= Len(shots')
                   /\ Result(shots'[k]) = Result(shots[k]) ]_vars

\* the id of the record k of the list is that of no other record of the list
IdIsUnique(list, k) == \A j \in 1..Len(list) : j # k => list[j].id # list[k].id

\* C11 for the records whose id no other record of the list has
C11_FinalWhenIdUnique ==
  /\ [](\A k \in 1..Len(shots) : shots[k].status \in {PENDING, SUCCESS, ERROR})
  /\ [][ last'.op \in RunSteps =>
           \A k \in 1..Len(shots) :
              (IsResolved(shots[k]) /\ IdIsUnique(shots, k))
                => /\ k <= Len(shots')
                   /\ Result(shots'[k]) = Result(shots[k]) ]_vars

\* a record of the list is still PENDING
SomePending == \E k \in 1..Len(shots) : shots[k].status = PENDING

CurrentRun == Len(runs)

\* C13: an accepted handleGenerate makes the list the PENDING records of the
\* new run and nothing else; a call of an earlier run that settles leaves
\* every record of the list as it was; and a call of the current run that
\* settles changes no record but the one it was made for.
C13_NewerRunUntouched ==
  [][ /\ last'.op = "accepted"
           => /\ Len(shots') = Len(AcceptedItems(last'.input))
              /\ \A k \in 1..Len(shots') :
                   /\ shots'[k].status = PENDING
                   /\ shots'[k].prompt = AcceptedItems(last'.input)[k].prompt
              /\ last'.run = CurrentRun'
              /\ Len(shots') > 0 => shots' = runs'[CurrentRun'].initialShots
      /\ (last'.op = "settle" /\ last'.run # CurrentRun) => shots' = shots
      /\ (last'.op = "settle" /\ last'.run = CurrentRun)
           => \A k \in 1..Len(shots) : k # last'.idx => shots'[k] = shots[k] ]_vars

\* C13 for the updates of an earlier run alone
C13_StaleUpdateIgnored ==
  [][ (last'.op = "settle" /\ last'.run # CurrentRun) => shots' = shots ]_vars

\* C13 when no id of the earlier run is the id of a record of the list
C13_UntouchedWhenIdsDiffer ==
  [][ (last'.op = "settle" /\ last'.run # CurrentRun
         /\ \A k \in 1..Len(shots) :
               shots[k].id # runs[last'.run].initialShots[last'.idx].id)
        => shots' = shots ]_vars

====
